---- MODULE Spec2Model ----
(***************************************************************************)
(* Artifact lifecycle and inference serving of application.py: the lazily  *)
(* loaded classifier and vectorizer, the lock that guards their load, the  *)
(* background warm-up thread and the request handlers that call into them. *)
(* Every step of a thread reads or writes the shared globals at most once, *)
(* so that the interleavings of the threads are explicit.                  *)
(***************************************************************************)
EXTENDS Naturals, Integers, Sequences, FiniteSets

\* ---------------------------------------------------------------- bounds
\* number of request-handling threads next to the warm-up thread
NumWorkers == 2
\* number of requests the workers serve in one run, all workers together
MaxRequests == 2
\* longest request message that is enumerated
MaxMsgLen == 2

\* ---------------------------------------------------------------- threads
\* the thread started at import time, threading.Thread(target=_eager_load_background)
BG == 0
Workers == 1..NumWorkers
Threads == {BG} \cup Workers

\* ---------------------------------------------------------------- values
\* a handle is None (0) or the object produced by the k-th deserialization
\* of its file (k > 0), so that a replaced handle differs from the first one
None == 0
\* _artifact_lock is free (Free) or held by a thread
Free == 0 - 1
NoExc == "none"

\* what open() and pickle.load() of one artifact file can do
LoadOutcomes == {"ok", "FileNotFoundError", "PermissionError", "UnpicklingError"}
\* what _vectorizer.transform / _loaded_model.predict can do on set handles
InferOutcomes == {"ok", "ValueError"}
\* pred[0]: a numpy scalar (it has .item()) or a native value
RawPreds == {[numpy |-> TRUE, v |-> 0], [numpy |-> TRUE, v |-> 1],
             [numpy |-> FALSE, v |-> 0], [numpy |-> FALSE, v |-> 1]}

\* isinstance(e, cls) for the exception classes named in the except clauses
IsInstance(e, cls) ==
    CASE cls = "Exception" -> e # NoExc
      [] cls = "FileNotFoundError" -> e = "FileNotFoundError"
      [] OTHER -> FALSE

\* ---------------------------------------------------------------- messages
Chars == {" ", "a"}
Missing == <<"missing">>
RECURSIVE SeqsUpTo(_)
SeqsUpTo(n) ==
    IF n = 0 THEN {<<>>}
    ELSE LET S == SeqsUpTo(n - 1)
         IN  S \cup {Append(s, c) : s \in {x \in S : Len(x) = n - 1}, c \in Chars}
\* the "message" form field of a request: absent, or a string
RawMessages == {Missing} \cup SeqsUpTo(MaxMsgLen)
\* JSON null, a "message" value that is not a string
Null == <<"null">>
\* the "message" member of a JSON object: absent, null, or a string
JsonValues == RawMessages \cup {Null}

\* what request.get_json(silent=True) returns: None for a body that is not
\* JSON ("none"), a falsy value such as [] or 0 ("falsy"), a non-empty value
\* that is not an object, such as [1] ("array"), or an object
JsonBody(k, m) == [kind |-> k, message |-> m]
JsonBodies ==
    {JsonBody(k, Missing) : k \in {"none", "falsy", "array"}}
        \cup {JsonBody("object", m) : m \in JsonValues}
\* line 258: request.get_json(silent=True) or {}
DataOf(b) == IF b.kind \in {"none", "falsy"} THEN JsonBody("object", Missing) ELSE b
\* line 259: data has a .get method (it is a dict); otherwise data.get raises
\* AttributeError
HasGet(d) == d.kind = "object"

RECURSIVE LStrip(_)
LStrip(s) == IF s # <<>> /\ Head(s) = " " THEN LStrip(Tail(s)) ELSE s
RECURSIVE RStrip(_)
RStrip(s) ==
    IF s # <<>> /\ s[Len(s)] = " " THEN RStrip(SubSeq(s, 1, Len(s) - 1)) ELSE s
\* str.strip()
Strip(s) == RStrip(LStrip(s))
\* str(v) of a JSON value: a string is itself, null is "None"
Str(v) == IF v = Null THEN <<"N", "o", "n", "e">> ELSE v
\* line 259: str(data.get("message", "")).strip()
MessageOf(m) == Strip(Str(IF m = Missing THEN <<>> ELSE m))
\* line 219: (request.form.get("message") or "").strip()
FormMessageOf(m) == Strip(IF m = Missing THEN <<>> ELSE m)

\* ---------------------------------------------------------------- state
VARIABLES
    _loaded_model,   \* the classifier handle
    _vectorizer,     \* the vectorizer handle
    _artifact_lock,  \* Free or the thread that holds the lock
    pc,              \* where each thread is
    exc,             \* the exception in flight in each thread
    route,           \* the endpoint a worker is serving, "none" when idle
    resp,            \* the response a worker has produced
    served,          \* number of requests accepted so far
    loadCount,       \* number of times the deserialize step was entered
    failCount,       \* number of load attempts that raised
    okCount,         \* number of load attempts that completed
    calls            \* number of calls of _load_artifacts_once so far

vars == <<_loaded_model, _vectorizer, _artifact_lock, pc, exc, route, resp, served,
          loadCount, failCount, okCount, calls>>

NoResp == [status |-> 0, body |-> "none", model_loaded |-> FALSE, logged |-> NoExc]

\* bool(_loaded_model is not None and _vectorizer is not None)
IsLoaded == _loaded_model # None /\ _vectorizer # None

\* a check-then-load that does not look at the handles again under the lock
NeedsLoadNoRecheck == TRUE

\* a re-check that loads only when both handles are unset
NeedsLoadBothUnset == _loaded_model = None /\ _vectorizer = None

\* line 37: the condition re-checked under the lock
NeedsLoad == _loaded_model = None \/ _vectorizer = None

\* a lock that excludes nobody (one lock object per call)
LockAvailablePerCall == TRUE

\* line 36: the lock can be taken by a thread that reaches "with _artifact_lock"
LockAvailable == _artifact_lock = Free

\* no fast path: every call goes on to take the lock
FastPathNever == FALSE

\* a fast path that looks at the classifier handle only
FastPathVectorizerUnchecked == TRUE

\* line 34, right operand: the vectorizer handle as the fast path reads it
FastPathVectorizerSet == _vectorizer # None

\* an assignment that binds a function-local name and leaves the global alone
DeserializedIntoLocal(h) == h

\* lines 41 and 43: the global after "handle = pickle.load(f)", a new object
Deserialized(h) == h + 1

\* where a thread continues after _load_artifacts_once returns normally
ReturnTo(t) == IF t = BG THEN "bg_end" ELSE "transform"
\* where a thread continues when _load_artifacts_once raises
RaiseTo(t) == IF t = BG THEN "bg_except" ELSE "handler"

Init ==
    /\ _loaded_model = None
    /\ _vectorizer = None
    /\ _artifact_lock = Free
    /\ pc = [t \in Threads |-> IF t = BG THEN "bg_start" ELSE "idle"]
    /\ exc = [t \in Threads |-> NoExc]
    /\ route = [t \in Threads |-> "none"]
    /\ resp = [t \in Threads |-> NoResp]
    /\ served = 0
    /\ loadCount = 0
    /\ failCount = 0
    /\ okCount = 0
    /\ calls = 0

\* ------------------------------------------------- _load_artifacts_once
\* line 34, left operand: "_loaded_model is not None"
FastCheckModel(t) ==
    /\ pc[t] = "check_model"
    /\ pc' = [pc EXCEPT ![t] = IF _loaded_model # None THEN "check_vec" ELSE "acquire"]
    /\ UNCHANGED <<_loaded_model, _vectorizer, _artifact_lock, exc, resp, served,
                   loadCount, failCount, okCount, route, calls>>

\* line 34, right operand: "_vectorizer is not None", and the return of line 35
FastCheckVec(t) ==
    /\ pc[t] = "check_vec"
    /\ pc' = [pc EXCEPT ![t] = IF FastPathVectorizerSet THEN ReturnTo(t) ELSE "acquire"]
    /\ UNCHANGED <<_loaded_model, _vectorizer, _artifact_lock, exc, resp, served,
                   loadCount, failCount, okCount, route, calls>>

\* line 36: "with _artifact_lock" blocks until the lock is free
AcquireLock(t) ==
    /\ pc[t] = "acquire"
    /\ LockAvailable
    /\ _artifact_lock' = t
    /\ pc' = [pc EXCEPT ![t] = "locked_check"]
    /\ UNCHANGED <<_loaded_model, _vectorizer, exc, resp, served,
                   loadCount, failCount, okCount, route, calls>>

\* line 37: the re-check under the lock; lines 38-39 open the load
LockedCheck(t) ==
    /\ pc[t] = "locked_check"
    /\ IF NeedsLoad
       THEN /\ pc' = [pc EXCEPT ![t] = "load_model"]
            /\ loadCount' = loadCount + 1
       ELSE /\ pc' = [pc EXCEPT ![t] = "exit_with"]
            /\ UNCHANGED loadCount
    /\ UNCHANGED <<_loaded_model, _vectorizer, _artifact_lock, exc, resp, served,
                   failCount, okCount, route, calls>>

\* a load that is tried again inside the call when a read fails
AfterLoadFailureRetry == "locked_check"

\* lines 38-44: there is no try around the reads; an exception of open or
\* pickle.load leaves the with block at once
AfterLoadFailure == "exit_with"

\* a load whose first assignment binds a local name (no "global
\* _loaded_model"): the classifier handle stays as it was
LoadModelIntoLocal(t) ==
    /\ pc[t] = "load_model"
    /\ \E o \in LoadOutcomes :
         IF o = "ok"
         THEN /\ pc' = [pc EXCEPT ![t] = "load_vec"]
              /\ UNCHANGED <<exc, failCount>>
         ELSE /\ exc' = [exc EXCEPT ![t] = o]
              /\ failCount' = failCount + 1
              /\ pc' = [pc EXCEPT ![t] = AfterLoadFailure]
    /\ UNCHANGED <<_loaded_model, _vectorizer, _artifact_lock, resp, served,
                   loadCount, okCount, route, calls>>

\* lines 40-41: open MODEL_PATH, pickle.load, assign _loaded_model
LoadModel(t) ==
    /\ pc[t] = "load_model"
    /\ \E o \in LoadOutcomes :
         IF o = "ok"
         THEN /\ _loaded_model' = Deserialized(_loaded_model)
              /\ pc' = [pc EXCEPT ![t] = "load_vec"]
              /\ UNCHANGED <<exc, failCount>>
         ELSE /\ exc' = [exc EXCEPT ![t] = o]
              /\ failCount' = failCount + 1
              /\ pc' = [pc EXCEPT ![t] = AfterLoadFailure]
              /\ UNCHANGED _loaded_model
    /\ UNCHANGED <<_vectorizer, _artifact_lock, resp, served, loadCount, okCount, route, calls>>

\* lines 42-44: open VECTORIZER_PATH, pickle.load, assign _vectorizer
LoadVectorizer(t) ==
    /\ pc[t] = "load_vec"
    /\ \E o \in LoadOutcomes :
         IF o = "ok"
         THEN /\ _vectorizer' = Deserialized(_vectorizer)
              /\ okCount' = okCount + 1
              /\ pc' = [pc EXCEPT ![t] = "exit_with"]
              /\ UNCHANGED <<exc, failCount>>
         ELSE /\ exc' = [exc EXCEPT ![t] = o]
              /\ failCount' = failCount + 1
              /\ pc' = [pc EXCEPT ![t] = AfterLoadFailure]
              /\ UNCHANGED <<_vectorizer, okCount>>
    /\ UNCHANGED <<_loaded_model, _artifact_lock, resp, served, loadCount, route, calls>>

\* an acquire/release pair without try/finally: an exception skips the release
LockAfterExitNoFinally(t) == IF exc[t] # NoExc THEN _artifact_lock ELSE Free

\* the value of the lock when thread t leaves the with block of line 36
LockAfterExit(t) == Free

\* leaving "with _artifact_lock", normally or with the exception in flight
ExitWith(t) ==
    /\ pc[t] = "exit_with"
    /\ _artifact_lock' = LockAfterExit(t)
    /\ pc' = [pc EXCEPT ![t] = IF exc[t] = NoExc THEN ReturnTo(t) ELSE RaiseTo(t)]
    /\ UNCHANGED <<_loaded_model, _vectorizer, exc, resp, served,
                   loadCount, failCount, okCount, route, calls>>

\* ------------------------------------------------- _eager_load_background
\* line 60: the warm-up thread calls _load_artifacts_once
WarmupStart(t) ==
    /\ t = BG
    /\ pc[t] = "bg_start"
    /\ pc' = [pc EXCEPT ![t] = "check_model"]
    /\ calls' = calls + 1
    /\ UNCHANGED <<_loaded_model, _vectorizer, _artifact_lock, exc, resp, served,
                   loadCount, failCount, okCount, route>>

\* an except clause that names FileNotFoundError only
WarmupCatchesNotFoundOnly(e) == IsInstance(e, "FileNotFoundError")

\* the exception class of the except clause of line 61
WarmupCatches(e) == IsInstance(e, "Exception")

\* lines 61-63: the failure is logged and dropped
WarmupExcept(t) ==
    /\ t = BG
    /\ pc[t] = "bg_except"
    /\ IF WarmupCatches(exc[t])
       THEN /\ pc' = [pc EXCEPT ![t] = "bg_logged"]
            /\ exc' = [exc EXCEPT ![t] = NoExc]
       ELSE /\ pc' = [pc EXCEPT ![t] = "bg_uncaught"]
            /\ UNCHANGED exc
    /\ UNCHANGED <<_loaded_model, _vectorizer, _artifact_lock, resp, served,
                   loadCount, failCount, okCount, route, calls>>

\* ------------------------------------------------- responses
\* a rendered response, with the record logger.exception wrote for it
Resp(st, b, ml, lg) == [status |-> st, body |-> b, model_loaded |-> ml, logged |-> lg]

MsgRequired == "Field 'message' is required and must be non-empty."
MsgNotFound == "Model artifacts not found on server."
MsgFailed == "Inference failed."
\* the body of the framework's answer to an exception that leaves a view
MsgUnhandled == "Internal Server Error"

\* a model_loaded that is computed from the classifier handle alone
ModelLoadedFromClassifierOnly == TRUE

\* right operand of bool(_loaded_model is not None and _vectorizer is not None),
\* read after the left operand was found true
ModelLoadedSecondRead == _vectorizer # None

\* ------------------------------------------------- health
\* lines 198-200, left operand of model_loaded: "_loaded_model is not None"
HealthReadModel(t) ==
    /\ t \in Workers
    /\ pc[t] = "idle"
    /\ served < MaxRequests
    /\ served' = served + 1
    /\ route' = [route EXCEPT ![t] = "health"]
    /\ IF _loaded_model # None
       THEN /\ pc' = [pc EXCEPT ![t] = "health_vec"]
            /\ UNCHANGED resp
       ELSE /\ pc' = [pc EXCEPT ![t] = "responded"]
            /\ resp' = [resp EXCEPT ![t] = Resp(200, "ok", FALSE, NoExc)]
    /\ UNCHANGED <<_loaded_model, _vectorizer, _artifact_lock, exc,
                   loadCount, failCount, okCount, calls>>

\* lines 200-203, right operand "_vectorizer is not None" and the 200 answer
HealthReadVec(t) ==
    /\ pc[t] = "health_vec"
    /\ pc' = [pc EXCEPT ![t] = "responded"]
    /\ resp' = [resp EXCEPT ![t] = Resp(200, "ok", ModelLoadedSecondRead, NoExc)]
    /\ UNCHANGED <<_loaded_model, _vectorizer, _artifact_lock, exc, served,
                   loadCount, failCount, okCount, route, calls>>

\* ------------------------------------------------- demo
\* lines 208-210, left operand of model_loaded
DemoReadModel(t) ==
    /\ t \in Workers
    /\ pc[t] = "idle"
    /\ served < MaxRequests
    /\ served' = served + 1
    /\ route' = [route EXCEPT ![t] = "demo"]
    /\ IF _loaded_model # None
       THEN /\ pc' = [pc EXCEPT ![t] = "demo_vec"]
            /\ UNCHANGED resp
       ELSE /\ pc' = [pc EXCEPT ![t] = "responded"]
            /\ resp' = [resp EXCEPT ![t] = Resp(200, "demo page", FALSE, NoExc)]
    /\ UNCHANGED <<_loaded_model, _vectorizer, _artifact_lock, exc,
                   loadCount, failCount, okCount, calls>>

\* lines 210-214, right operand of model_loaded and the rendered page
DemoReadVec(t) ==
    /\ pc[t] = "demo_vec"
    /\ pc' = [pc EXCEPT ![t] = "responded"]
    /\ resp' = [resp EXCEPT ![t] = Resp(200, "demo page", ModelLoadedSecondRead, NoExc)]
    /\ UNCHANGED <<_loaded_model, _vectorizer, _artifact_lock, exc, served,
                   loadCount, failCount, okCount, route, calls>>

\* ------------------------------------------------- predict_json
\* lines 258-263 for the parsed request body b: data.get raises AttributeError
\* outside the try block when data is not a dict, and the framework answers
\* the unhandled exception with its own 500; otherwise the message is
\* stripped and checked, an empty one is answered 400, any other goes to
\* _predict_text, which calls _load_artifacts_once first (line 49)
\* (the call is counted here)
PredictJsonOf(t, b) ==
    /\ t \in Workers
    /\ pc[t] = "idle"
    /\ served < MaxRequests
    /\ served' = served + 1
    /\ route' = [route EXCEPT ![t] = "predict"]
    /\ IF ~HasGet(DataOf(b))
       THEN /\ pc' = [pc EXCEPT ![t] = "responded"]
            /\ resp' = [resp EXCEPT ![t] = Resp(500, MsgUnhandled, FALSE, "AttributeError")]
            /\ UNCHANGED calls
       ELSE IF MessageOf(DataOf(b).message) = <<>>
            THEN /\ pc' = [pc EXCEPT ![t] = "responded"]
                 /\ resp' = [resp EXCEPT ![t] = Resp(400, MsgRequired, FALSE, NoExc)]
                 /\ UNCHANGED calls
            ELSE /\ pc' = [pc EXCEPT ![t] = "check_model"]
                 /\ calls' = calls + 1
                 /\ UNCHANGED resp
    /\ UNCHANGED <<_loaded_model, _vectorizer, _artifact_lock, exc,
                   loadCount, failCount, okCount>>

\* a POST /predict arrives at an idle worker
PredictJson(t) == \E b \in JsonBodies : PredictJsonOf(t, b)

\* ------------------------------------------------- predict_form
\* lines 219-229 for the "message" form field m: it is stripped and checked;
\* for an empty one the 400 page is rendered, starting with the left operand
\* of its model_loaded; any other goes to _predict_text
PredictFormOf(t, m) ==
    /\ t \in Workers
    /\ pc[t] = "idle"
    /\ served < MaxRequests
    /\ served' = served + 1
    /\ route' = [route EXCEPT ![t] = "predict_form"]
    /\ IF FormMessageOf(m) = <<>>
       THEN /\ UNCHANGED calls
            /\ IF _loaded_model # None
               THEN /\ pc' = [pc EXCEPT ![t] = "form400_vec"]
                    /\ UNCHANGED resp
               ELSE /\ pc' = [pc EXCEPT ![t] = "responded"]
                    /\ resp' = [resp EXCEPT ![t] = Resp(400, MsgRequired, FALSE, NoExc)]
       ELSE /\ pc' = [pc EXCEPT ![t] = "check_model"]
            /\ calls' = calls + 1
            /\ UNCHANGED resp
    /\ UNCHANGED <<_loaded_model, _vectorizer, _artifact_lock, exc,
                   loadCount, failCount, okCount>>

\* a POST /predict-form arrives at an idle worker
PredictForm(t) == \E m \in RawMessages : PredictFormOf(t, m)

\* ------------------------------------------------- _predict_text
\* line 50: _vectorizer.transform([message]); on None it is an AttributeError
Transform(t) ==
    /\ pc[t] = "transform"
    /\ IF _vectorizer = None
       THEN /\ exc' = [exc EXCEPT ![t] = "AttributeError"]
            /\ pc' = [pc EXCEPT ![t] = "handler"]
       ELSE \E o \in InferOutcomes :
              IF o = "ok"
              THEN /\ pc' = [pc EXCEPT ![t] = "predict"]
                   /\ UNCHANGED exc
              ELSE /\ exc' = [exc EXCEPT ![t] = o]
                   /\ pc' = [pc EXCEPT ![t] = "handler"]
    /\ UNCHANGED <<_loaded_model, _vectorizer, _artifact_lock, resp, served,
                   loadCount, failCount, okCount, route, calls>>

\* str() of a native label value
StrOf(v) == IF v = 0 THEN "0" ELSE "1"
\* line 54: val.item() of a numpy scalar, or the native value itself
Native(p) == p.v
\* lines 53-55: the raw prediction as a native str
LabelOf(p) == StrOf(Native(p))

\* line 232: the model_loaded of the 200 page of predict_form is the constant
\* True; the JSON answer of line 264 has no model_loaded
OkModelLoaded(t) == route[t] = "predict_form"

\* lines 51-55 and 230-236, 264: _loaded_model.predict(X), the label, the 200
\* answer of the route
Predict(t) ==
    /\ pc[t] = "predict"
    /\ IF _loaded_model = None
       THEN /\ exc' = [exc EXCEPT ![t] = "AttributeError"]
            /\ pc' = [pc EXCEPT ![t] = "handler"]
            /\ UNCHANGED resp
       ELSE \E o \in InferOutcomes :
              IF o = "ok"
              THEN /\ \E p \in RawPreds :
                        resp' = [resp EXCEPT ![t] =
                                   Resp(200, LabelOf(p), OkModelLoaded(t), NoExc)]
                   /\ pc' = [pc EXCEPT ![t] = "responded"]
                   /\ UNCHANGED exc
              ELSE /\ exc' = [exc EXCEPT ![t] = o]
                   /\ pc' = [pc EXCEPT ![t] = "handler"]
                   /\ UNCHANGED resp
    /\ UNCHANGED <<_loaded_model, _vectorizer, _artifact_lock, served,
                   loadCount, failCount, okCount, route, calls>>

\* lines 237-253 and 265-269: the status of a failed prediction
ErrorStatus(e) ==
    IF IsInstance(e, "FileNotFoundError") THEN 503
    ELSE IF IsInstance(e, "Exception") THEN 500
    ELSE 0

\* lines 265-269: the except clauses of predict_json; the 500 branch logs
\* the exception
Handler(t) ==
    /\ pc[t] = "handler"
    /\ route[t] = "predict"
    /\ ErrorStatus(exc[t]) # 0
    /\ resp' = [resp EXCEPT ![t] =
                  IF ErrorStatus(exc[t]) = 503
                  THEN Resp(503, MsgNotFound, FALSE, NoExc)
                  ELSE Resp(500, MsgFailed, FALSE, exc[t])]
    /\ exc' = [exc EXCEPT ![t] = NoExc]
    /\ pc' = [pc EXCEPT ![t] = "responded"]
    /\ UNCHANGED <<_loaded_model, _vectorizer, _artifact_lock, served,
                   loadCount, failCount, okCount, route, calls>>

\* line 240: the model_loaded of the 503 page is the constant False
NotFoundModelLoaded == FALSE

\* lines 237-253: the except clauses of predict_form; the 503 page is rendered
\* at once, the 500 branch logs the exception and starts to read model_loaded
FormHandler(t) ==
    /\ pc[t] = "handler"
    /\ route[t] = "predict_form"
    /\ ErrorStatus(exc[t]) # 0
    /\ IF ErrorStatus(exc[t]) = 503
       THEN /\ resp' = [resp EXCEPT ![t] =
                          Resp(503, MsgNotFound, NotFoundModelLoaded, NoExc)]
            /\ exc' = [exc EXCEPT ![t] = NoExc]
            /\ pc' = [pc EXCEPT ![t] = "responded"]
       ELSE IF _loaded_model # None
            THEN /\ pc' = [pc EXCEPT ![t] = "form500_vec"]
                 /\ UNCHANGED <<resp, exc>>
            ELSE /\ resp' = [resp EXCEPT ![t] = Resp(500, MsgFailed, FALSE, exc[t])]
                 /\ exc' = [exc EXCEPT ![t] = NoExc]
                 /\ pc' = [pc EXCEPT ![t] = "responded"]
    /\ UNCHANGED <<_loaded_model, _vectorizer, _artifact_lock, served,
                   loadCount, failCount, okCount, route, calls>>

\* lines 223-227 and 249-253: right operand of model_loaded and the rendered
\* 400 or 500 page of predict_form
FormReadVec(t) ==
    /\ pc[t] \in {"form400_vec", "form500_vec"}
    /\ resp' = [resp EXCEPT ![t] =
                  IF pc[t] = "form400_vec"
                  THEN Resp(400, MsgRequired, ModelLoadedSecondRead, NoExc)
                  ELSE Resp(500, MsgFailed, ModelLoadedSecondRead, exc[t])]
    /\ exc' = [exc EXCEPT ![t] = NoExc]
    /\ pc' = [pc EXCEPT ![t] = "responded"]
    /\ UNCHANGED <<_loaded_model, _vectorizer, _artifact_lock, served,
                   loadCount, failCount, okCount, route, calls>>

\* the response has been sent; the worker waits for its next request
Finish(t) ==
    /\ pc[t] = "responded"
    /\ pc' = [pc EXCEPT ![t] = "idle"]
    /\ route' = [route EXCEPT ![t] = "none"]
    /\ resp' = [resp EXCEPT ![t] = NoResp]
    /\ UNCHANGED <<_loaded_model, _vectorizer, _artifact_lock, exc, served,
                   loadCount, failCount, okCount, calls>>

\* ------------------------------------------------- the system
\* the steps a thread takes on its own once its call or request has begun
Step(t) ==
    \/ FastCheckModel(t)
    \/ FastCheckVec(t)
    \/ AcquireLock(t)
    \/ LockedCheck(t)
    \/ LoadModel(t)
    \/ LoadVectorizer(t)
    \/ ExitWith(t)
    \/ WarmupStart(t)
    \/ WarmupExcept(t)
    \/ HealthReadVec(t)
    \/ DemoReadVec(t)
    \/ Transform(t)
    \/ Predict(t)
    \/ Handler(t)
    \/ FormHandler(t)
    \/ FormReadVec(t)
    \/ Finish(t)

\* the arrival of a request at an idle worker
Arrive(t) ==
    \/ HealthReadModel(t)
    \/ DemoReadModel(t)
    \/ PredictJson(t)
    \/ PredictForm(t)

Next == \E t \in Threads : Step(t) \/ Arrive(t)

Spec == Init /\ [][Next]_vars

\* every thread that can take a step eventually takes one
FairSpec == Spec /\ \A t \in Threads : WF_vars(Step(t))

\* ------------------------------------------------- a burst of first calls
\* the warm-up thread and one /predict request per worker have all called
\* _load_artifacts_once before any of them has reached line 34
BurstInit ==
    /\ _loaded_model = None
    /\ _vectorizer = None
    /\ _artifact_lock = Free
    /\ pc = [t \in Threads |-> "check_model"]
    /\ exc = [t \in Threads |-> NoExc]
    /\ route = [t \in Threads |-> IF t = BG THEN "none" ELSE "predict"]
    /\ resp = [t \in Threads |-> NoResp]
    /\ served = NumWorkers
    /\ loadCount = 0
    /\ failCount = 0
    /\ okCount = 0
    /\ calls = NumWorkers + 1

\* the steps of _load_artifacts_once, up to the return or raise of each call
BurstNext ==
    \E t \in Threads :
        \/ FastCheckModel(t)
        \/ FastCheckVec(t)
        \/ AcquireLock(t)
        \/ LockedCheck(t)
        \/ LoadModel(t)
        \/ LoadVectorizer(t)
        \/ ExitWith(t)

BurstSpec == BurstInit /\ [][BurstNext]_vars

\* ------------------------------------------------- positions
\* a thread is inside _load_artifacts_once
InEnsure(t) ==
    pc[t] \in {"check_model", "check_vec", "acquire", "locked_check",
               "load_model", "load_vec", "exit_with"}
\* a thread is inside the with block of line 36
InLockedSection(t) == pc[t] \in {"locked_check", "load_model", "load_vec", "exit_with"}
\* a thread is inside the file-read-and-deserialize step, lines 38-44
InLoadStep(t) == pc[t] \in {"load_model", "load_vec"}
\* a thread's call of _load_artifacts_once has returned normally
ReturnedFromEnsure(t) == pc[t] \in {"bg_end", "transform", "predict"}
LoadFailures == LoadOutcomes \ {"ok"}
\* a thread's call of _load_artifacts_once has raised and not been handled yet
RaisedFromEnsure(t) == pc[t] \in {"handler", "bg_except"} /\ exc[t] \in LoadFailures
InferFailures == InferOutcomes \ {"ok"}
Labels == {"0", "1"}
\* a string of whitespace only (the empty string included)
OnlySpaces(s) == \A i \in 1..Len(s) : s[i] = " "
\* a /predict body that carries no message, or one that is empty after
\* trimming surrounding whitespace
BlankBody(b) ==
    \/ b.kind # "object"
    \/ b.message = Missing
    \/ (b.message # Null /\ OnlySpaces(b.message))
\* a /predict-form field that is absent or empty after trimming
BlankField(m) == m = Missing \/ OnlySpaces(m)
\* worker t ends its request in this step
Responds(t) == pc[t] # "responded" /\ pc'[t] = "responded"

\* ------------------------------------------------- claims
\* C1: as long as no file read has failed, the deserialize step has been
\* entered at most once, and every caller that has returned from
\* _load_artifacts_once finds both handles set by that one execution.
C1_LoadedExactlyOnce ==
    failCount = 0 =>
        /\ loadCount <= 1
        /\ \A t \in Threads :
             ReturnedFromEnsure(t) => (IsLoaded /\ loadCount = 1 /\ okCount = 1)

\* C1 witness: the warm-up thread and two workers have all returned from
\* their call, nothing failed, and the step ran once.
C1_Witness ==
    /\ failCount = 0
    /\ loadCount = 1
    /\ pc[BG] = "bg_end"
    /\ \E t, u \in Workers : t # u /\ pc[t] = "transform" /\ pc[u] = "transform"

\* C2: at most one thread is inside the file-read-and-deserialize step.
C2_OneLoaderAtATime == Cardinality({t \in Threads : InLoadStep(t)}) <= 1

\* C2 witness: after a failed attempt, one thread is loading while another
\* waits for the lock.
C2_Witness ==
    /\ failCount > 0
    /\ \E t, u \in Threads : t # u /\ pc[t] = "load_vec" /\ pc[u] = "acquire"

\* C3: is_loaded is false in every state in which no load has completed and
\* true in every state in which one has; completed loads are never undone.
C3_LoadedIffLoadCompleted == IsLoaded <=> okCount > 0

\* C3 witness: the store is loaded and a later request has failed in
\* inference, with no load failure in the run.
C3_Witness ==
    /\ IsLoaded
    /\ failCount = 0
    /\ \E t \in Workers :
         pc[t] = "responded" /\ resp[t].status = 500 /\ resp[t].body = MsgFailed

\* C4 (as claimed): when the load of a call raises, both handles are unset
\* while the exception leaves the with block.
C4_FailedLoadLeavesBothUnset ==
    \A t \in Threads :
        (pc[t] = "exit_with" /\ exc[t] # NoExc) =>
            (_loaded_model = None /\ _vectorizer = None)

\* C5 (as claimed): each handle is assigned at most once in a run, so it is
\* None or the object of the first deserialization of its file.
C5_HandlesAssignedAtMostOnce == _loaded_model <= 1 /\ _vectorizer <= 1

\* C6: the lock is held exactly by the thread that is inside the with block;
\* when no thread is inside, the lock is free, also after a load has raised.
C6_LockHeldOnlyInsideWith ==
    /\ _artifact_lock \in Threads \cup {Free}
    /\ \A t \in Threads : (_artifact_lock = t) <=> InLockedSection(t)

\* C6 witness: a load has raised, its thread has left the with block with the
\* exception in flight, and the lock is free.
C6_Witness ==
    /\ _artifact_lock = Free
    /\ \E t \in Threads : pc[t] \in {"handler", "bg_except"} /\ exc[t] \in LoadFailures

\* C7: whenever a thread is at transform or predict of _predict_text, both
\* handles are set.
C7_InferenceOnlyWhenLoaded ==
    \A t \in Threads : pc[t] \in {"transform", "predict"} => IsLoaded

\* C7 witness: after a failed load, one worker runs inference while another
\* thread is still inside _load_artifacts_once.
C7_Witness ==
    /\ failCount > 0
    /\ \E t, u \in Threads : t # u /\ pc[t] = "predict" /\ InEnsure(u)

C9_LoadFailureNotSticky ==
    /\ [](\A t \in Workers :
            /\ pc[t] = "handler" => exc[t] \in LoadFailures \cup InferFailures
            /\ (pc[t] = "responded" /\ route[t] = "predict" /\ resp[t].status = 200) =>
                   (IsLoaded /\ resp[t].body \in Labels))
    /\ (\E t \in Workers : failCount > 0 /\ pc[t] = "check_model") ~>
           (\A t \in Workers : pc[t] \in {"idle", "responded"})

\* C9 witness: the warm-up load failed, and the only request of the run so
\* far, an inference request, has loaded the store and answered 200.
C9_Witness ==
    /\ pc[BG] = "bg_logged"
    /\ served = 1
    /\ okCount = 1
    /\ \E t \in Workers :
         pc[t] = "responded" /\ route[t] = "predict" /\ resp[t].status = 200

\* C10: a failure of the warm-up's load never leaves the warm-up task: the
\* task ends in its except clause with the exception dropped and the lock not
\* held, and the health endpoint still accepts requests and answers 200.
C10_WarmupFailureDiscarded ==
    /\ pc[BG] # "bg_uncaught"
    /\ pc[BG] \in {"bg_except", "bg_logged"} => _artifact_lock # BG
    /\ pc[BG] = "bg_logged" =>
         /\ exc[BG] = NoExc
         /\ \A t \in Workers :
              /\ (pc[t] = "idle" /\ served < MaxRequests) => ENABLED HealthReadModel(t)
              /\ (pc[t] = "responded" /\ route[t] = "health") => resp[t].status = 200

\* C10 witness: the warm-up has failed and been logged, and a health request
\* that arrived afterwards has been answered.
C10_Witness ==
    /\ pc[BG] = "bg_logged"
    /\ failCount = 1
    /\ served = 1
    /\ \E t \in Workers :
         pc[t] = "responded" /\ route[t] = "health" /\ resp[t].status = 200

\* C11 (as claimed): a POST /predict is answered 400 exactly when its message
\* is missing or empty after trimming; a request that is not answered 400 ends
\* with 503 when the load raised FileNotFoundError, with 500 on any other
\* failure of load or inference, and with 200 and a label string otherwise;
\* every exception that reaches the except clauses is caught by one of them.
C11_PredictStatusMapping ==
    /\ [][\A t \in Workers :
            /\ \A b \in JsonBodies :
                 PredictJsonOf(t, b) =>
                     IF BlankBody(b)
                     THEN pc'[t] = "responded" /\ resp'[t].status = 400
                     ELSE pc'[t] = "check_model"
            /\ (route[t] = "predict" /\ Responds(t)) =>
                 /\ resp'[t].status =
                        IF pc[t] = "handler"
                        THEN IF exc[t] = "FileNotFoundError" THEN 503 ELSE 500
                        ELSE 200
                 /\ resp'[t].status = 200 => resp'[t].body \in Labels]_vars
    /\ [](\A t \in Workers :
            (pc[t] = "handler" /\ route[t] = "predict") => ENABLED Handler(t))

\* C12 (as claimed): a load that fails because an artifact file exists but
\* cannot be read (PermissionError) is answered like a missing file: the
\* /predict or /predict-form request that made the attempt ends with 503.
C12_UnreadableAnswered503 ==
    [][\A t \in Workers :
         (pc[t] = "handler" /\ exc[t] = "PermissionError" /\ pc'[t] # "handler") =>
             (pc'[t] = "responded" /\ resp'[t].status = 503)]_vars

\* C13 (as claimed): a /predict or /predict-form request whose message is
\* missing, empty or only whitespace is answered 400 without entering
\* _load_artifacts_once: no step of its handling takes the lock, starts a
\* load or changes a handle.
C13_BlankRejectedBeforeInference ==
    [][\A t \in Workers :
         /\ \A b \in JsonBodies :
              (BlankBody(b) /\ PredictJsonOf(t, b)) =>
                  /\ pc'[t] = "responded" /\ resp'[t].status = 400
                  /\ UNCHANGED <<_loaded_model, _vectorizer, _artifact_lock, loadCount>>
         /\ \A m \in RawMessages :
              (BlankField(m) /\ PredictFormOf(t, m)) =>
                  /\ pc'[t] \in {"responded", "form400_vec"}
                  /\ pc'[t] = "responded" => resp'[t].status = 400
                  /\ UNCHANGED <<_loaded_model, _vectorizer, _artifact_lock, loadCount>>
         /\ (pc[t] = "form400_vec" /\ pc'[t] # pc[t]) =>
                  /\ pc'[t] = "responded" /\ resp'[t].status = 400
                  /\ UNCHANGED <<_loaded_model, _vectorizer, _artifact_lock, loadCount>>]_vars

\* C14: GET / and GET /demo can be taken by an idle worker in every state and
\* each of their steps can always be taken (they wait for nothing); their
\* steps leave the lock, the handles and the load counters alone; they end
\* with 200, and the model_loaded they report is is_loaded at that moment.
C14_HealthAndDemoNeverBlock ==
    /\ [](\A t \in Workers :
            /\ (pc[t] = "idle" /\ served < MaxRequests) =>
                   (ENABLED HealthReadModel(t) /\ ENABLED DemoReadModel(t))
            /\ pc[t] = "health_vec" => ENABLED HealthReadVec(t)
            /\ pc[t] = "demo_vec" => ENABLED DemoReadVec(t))
    /\ [][\A t \in Workers :
            (route'[t] \in {"health", "demo"} /\ pc'[t] # pc[t] /\ pc'[t] # "idle") =>
                /\ pc'[t] \in {"health_vec", "demo_vec", "responded"}
                /\ UNCHANGED <<_loaded_model, _vectorizer, _artifact_lock,
                               loadCount, failCount, okCount>>
                /\ pc'[t] = "responded" =>
                       /\ resp'[t].status = 200
                       /\ resp'[t].model_loaded = IsLoaded']_vars

\* C14 witness: while the warm-up thread holds the lock in the middle of a
\* load (classifier set, vectorizer not yet), a health request and a demo
\* request have both been answered.
C14_Witness ==
    /\ pc[BG] = "load_vec"
    /\ _artifact_lock = BG
    /\ \E t, u \in Workers :
         /\ pc[t] = "responded" /\ route[t] = "health" /\ resp[t].status = 200
         /\ pc[u] = "responded" /\ route[u] = "demo" /\ resp[u].status = 200
         /\ ~resp[u].model_loaded

\* C15 (as claimed): when the warm-up thread and the workers all call
\* _load_artifacts_once before any load and a load fails, every caller that
\* has come back has come back with the failure, all with the same kind of
\* failure, and both handles are unset.
C15_AllObserveSameFailure ==
    failCount > 0 =>
        \A t, u \in Threads :
            (~InEnsure(t) /\ ~InEnsure(u)) =>
                /\ RaisedFromEnsure(t)
                /\ exc[t] = exc[u]
                /\ _loaded_model = None /\ _vectorizer = None

\* C16: once both handles are set they stay set, and a call of
\* _load_artifacts_once that is at its first check from then on returns
\* through lines 34-35: its steps are never blocked, go from the check of the
\* classifier to the check of the vectorizer to the return, and leave the
\* lock, the handles and the load counter alone.
C16_FastPathWhenLoaded ==
    /\ [](\A t \in Threads :
            (IsLoaded /\ pc[t] \in {"check_model", "check_vec"}) =>
                (ENABLED FastCheckModel(t) \/ ENABLED FastCheckVec(t)))
    /\ [][/\ IsLoaded => IsLoaded'
          /\ \A t \in Threads :
               (IsLoaded /\ pc[t] \in {"check_model", "check_vec"} /\ pc'[t] # pc[t]) =>
                   /\ pc'[t] = IF pc[t] = "check_model" THEN "check_vec" ELSE ReturnTo(t)
                   /\ UNCHANGED <<_loaded_model, _vectorizer, _artifact_lock,
                                  loadCount, failCount, okCount>>]_vars

\* C16 witness: with the store loaded, one worker has passed the first check
\* of the fast path while the other worker is inside predict.
C16_Witness ==
    /\ IsLoaded
    /\ _artifact_lock = Free
    /\ \E t, u \in Workers : pc[t] = "check_vec" /\ pc[u] = "predict"

\* C17 (as claimed): the model_loaded of every /predict-form response, with
\* status 200, 400, 503 or 500, is is_loaded at the moment the page is
\* rendered, whatever other threads have loaded in the meantime.
C17_FormModelLoadedIsCurrent ==
    [][\A t \in Workers :
         (route[t] = "predict_form" /\ Responds(t)) =>
             resp'[t].model_loaded = IsLoaded']_vars

\* C18: whenever the vectorizer handle is set, the classifier handle is set;
\* a partially loaded store is always classifier set, vectorizer unset.
C18_VectorizerImpliesClassifier == _vectorizer # None => _loaded_model # None

\* C18 witness: a load has failed after the classifier was assigned and its
\* thread has left the with block: classifier set, vectorizer unset, lock free.
C18_Witness ==
    /\ _loaded_model # None
    /\ _vectorizer = None
    /\ _artifact_lock = Free
    /\ failCount > 0

\* C19: a call of _load_artifacts_once enters the deserialize step at most
\* once and only forwards from there: a read that fails takes the call
\* straight out of the with block and back to its caller with the exception.
\* So the number of load attempts never exceeds the number of calls made
\* (warm-up and inference requests), and no attempt starts after a load has
\* completed.
C19_NoRetryInsideCall ==
    /\ [](loadCount <= calls)
    /\ [][/\ loadCount' # loadCount =>
               /\ loadCount' = loadCount + 1
               /\ okCount = 0
               /\ \E t \in Threads : pc[t] = "locked_check" /\ pc'[t] = "load_model"
          /\ \A t \in Threads :
               /\ (pc'[t] = "check_model" /\ pc[t] # "check_model") =>
                      (pc[t] \in {"idle", "bg_start"} /\ calls' = calls + 1)
               /\ (pc'[t] = "locked_check" /\ pc[t] # "locked_check") => pc[t] = "acquire"
               /\ (pc[t] = "load_model" /\ pc'[t] # pc[t]) =>
                      pc'[t] = IF exc'[t] = NoExc THEN "load_vec" ELSE "exit_with"
               /\ (pc[t] = "load_vec" /\ pc'[t] # pc[t]) => pc'[t] = "exit_with"
               /\ (pc[t] = "exit_with" /\ pc'[t] # pc[t]) =>
                      pc'[t] = IF exc[t] = NoExc THEN ReturnTo(t) ELSE RaiseTo(t)]_vars

\* C19 witness: the warm-up and two inference requests have each made one
\* load attempt; two failed and were propagated, the third completed.
C19_Witness ==
    /\ calls = 3
    /\ loadCount = 3
    /\ failCount = 2
    /\ okCount = 1
    /\ \A t \in Threads : ~InEnsure(t)

====
